---- MODULE Spec2Model ----
(***************************************************************************)
(* AskCody navigation action (src/actions.js, script version 3.1.0).       *)
(*                                                                         *)
(* The model covers AGENT_ACTIONS.navigate_to_page: execute, which         *)
(* resolves a spoken page name to a catalog URL and decides between a      *)
(* denial, a confirmation request and an immediate navigation after a      *)
(* reachability probe; and render, which shows the confirmation dialog     *)
(* and reports the user's choice to the host through callback / cancel.    *)
(*                                                                         *)
(* JavaScript strings are TLA+ strings, read character by character with   *)
(* SubSeq.  An object is a record; a property the object does not have is  *)
(* a field outside its DOMAIN.  A response message is named by a tag, one  *)
(* per message template of the source.                                     *)
(***************************************************************************)
EXTENDS Integers, Sequences, FiniteSets, TLC

(***************************************************************************)
(* Strings                                                                 *)
(***************************************************************************)
Ch(s, i) == SubSeq(s, i, i)

\* String.prototype.includes
Includes(s, m) ==
    \E i \in 1..(Len(s) - Len(m) + 1) : SubSeq(s, i, i + Len(m) - 1) = m

\* Position of the first occurrence of the one-character string c in s at
\* or after position from; Len(s) + 1 when there is none.
RECURSIVE IndexFrom(_, _, _)
IndexFrom(s, c, from) ==
    IF from > Len(s) THEN Len(s) + 1
    ELSE IF Ch(s, from) = c THEN from
    ELSE IndexFrom(s, c, from + 1)

\* The set of the characters of a string.
CharsOf(alphabet) == {Ch(alphabet, i) : i \in 1..Len(alphabet)}

UpperChars == "ABCDEFGHIJKLMNOPQRSTUVWXYZ"
LowerChars == "abcdefghijklmnopqrstuvwxyz"
DigitChars == "0123456789"

UpperSet == CharsOf(UpperChars)
LetterSet == CharsOf(LowerChars \o UpperChars)

LowerOf == [c \in UpperSet |->
               Ch(LowerChars, CHOOSE i \in 1..Len(UpperChars) : Ch(UpperChars, i) = c)]

LowerChar(c) == IF c \in UpperSet THEN LowerOf[c] ELSE c

\* String.prototype.toLowerCase
RECURSIVE ToLowerCase(_)
ToLowerCase(s) ==
    IF s = "" THEN "" ELSE LowerChar(Ch(s, 1)) \o ToLowerCase(SubSeq(s, 2, Len(s)))

\* A JavaScript value that may or may not be a string (params.page,
\* window.location.hostname).
Undefined == [type |-> "undefined"]
NotAString == [type |-> "number"]
Str(s) == [type |-> "string", str |-> s]
IsString(v) == v.type = "string"

(***************************************************************************)
(* Environment Resolver                                                    *)
(***************************************************************************)
\* A resolver that looks for the test marker first.
getEnvironmentFromHostname_TestFirst(hostname) ==
    IF Includes(hostname, "testaskcody.com")
    THEN [type |-> "TEST",
          appDomain |-> "app.testaskcody.com", userDomain |-> "eu.testaskcody.com"]
    ELSE IF Includes(hostname, "goaskcody.com")
    THEN [type |-> "US_PRODUCTION",
          appDomain |-> "app.goaskcody.com", userDomain |-> "us.goaskcody.com"]
    ELSE [type |-> "EU_PRODUCTION",
          appDomain |-> "app.onaskcody.com", userDomain |-> "eu.onaskcody.com"]

getEnvironmentFromHostname(hostname) ==
    IF Includes(hostname, "goaskcody.com")
    THEN [type |-> "US_PRODUCTION",
          appDomain |-> "app.goaskcody.com", userDomain |-> "us.goaskcody.com"]
    ELSE IF Includes(hostname, "testaskcody.com")
    THEN [type |-> "TEST",
          appDomain |-> "app.testaskcody.com", userDomain |-> "eu.testaskcody.com"]
    ELSE [type |-> "EU_PRODUCTION",
          appDomain |-> "app.onaskcody.com", userDomain |-> "eu.onaskcody.com"]

(***************************************************************************)
(* Page Catalog                                                            *)
(***************************************************************************)
\* A catalog entry whose URL carries its description as a fragment.
PageEntry_DescriptionInUrl(domain, path, description, category) ==
    [url |-> "https://" \o domain \o path \o "#" \o description,
     description |-> description, category |-> category]

\* A catalog entry whose URL is on the EU application domain whatever the
\* environment.
PageEntry_EuDomain(domain, path, description, category) ==
    [url |-> "https://app.onaskcody.com" \o path,
     description |-> description, category |-> category]

\* A catalog entry whose URL lacks the scheme.
PageEntry_NoScheme(domain, path, description, category) ==
    [url |-> domain \o path,
     description |-> description, category |-> category]

PageEntry(domain, path, description, category) ==
    [url |-> "https://" \o domain \o path,
     description |-> description, category |-> category]

PagesOf(env) ==
    [dashboard |-> PageEntry(env.appDomain, "/manager/dashboard/",
                     "Main workspace and overview", "management"),
     home |-> PageEntry(env.appDomain, "/manager/dashboard/",
                     "Same as dashboard - main workspace", "management"),
     settings |-> PageEntry(env.appDomain, "/manager/admin_center/",
                     "Account settings and system configuration", "management"),
     services |-> PageEntry(env.appDomain, "/manager/meeting/deliveries/",
                     "Meeting delivery services and catering", "management"),
     visitors |-> PageEntry(env.appDomain, "/manager/welcome/guests/",
                     "Guest management and visitor registration", "management"),
     guests |-> PageEntry(env.appDomain, "/manager/welcome/guests/",
                     "Same as visitors - guest management", "management"),
     insights |-> PageEntry(env.appDomain, "/manager/insights/",
                     "Analytics, reports and usage data", "management"),
     analytics |-> PageEntry(env.appDomain, "/manager/insights/",
                     "Same as insights - analytics and reports", "management"),
     reports |-> PageEntry(env.appDomain, "/manager/insights/",
                     "Same as insights - reporting dashboard", "management"),
     central |-> PageEntry(env.userDomain, "/central/events",
                     "Event management and scheduling central hub", "user"),
     events |-> PageEntry(env.userDomain, "/central/events",
                     "Same as central - event management", "user"),
     maps |-> PageEntry(env.userDomain, "/maps/personal",
                     "Interactive floor plans and location maps", "user"),
     bookings |-> PageEntry(env.userDomain, "/all-bookings",
                     "Meeting room reservations and booking management", "user"),
     reservations |-> PageEntry(env.userDomain, "/all-bookings",
                     "Same as bookings - room reservations", "user")]
    @@ ("admin-center" :> PageEntry(env.appDomain, "/manager/admin_center/",
                     "Administrative controls and settings", "management"))
    @@ ("floor-plans" :> PageEntry(env.userDomain, "/maps/personal",
                     "Same as maps - floor plans and layouts", "user"))
    @@ ("meeting-rooms" :> PageEntry(env.userDomain, "/all-bookings",
                     "Same as bookings - meeting room management", "user"))

getPageMapping(hostname) == PagesOf(getEnvironmentFromHostname(hostname))

\* Names every object inherits from Object.prototype and that survive
\* sanitizePageName unchanged: pages[name] is then a value that is not a
\* page entry (it has no url).
InheritedKeys == {"constructor", "__proto__"}

\* A lookup that finds the entries of category "management" only.
PageLookup_ManagementOnly(pages, page) ==
    IF page \in DOMAIN pages /\ pages[page].category = "management"
    THEN [found |-> TRUE, url |-> Str(pages[page].url),
          description |-> pages[page].description]
    ELSE [found |-> FALSE, url |-> Undefined, description |-> ""]

\* pages[page]: the entry, an inherited value without url, or undefined.
PageLookup(pages, page) ==
    IF page \in DOMAIN pages THEN [found |-> TRUE, url |-> Str(pages[page].url),
                                    description |-> pages[page].description]
    ELSE IF page \in InheritedKeys THEN [found |-> TRUE, url |-> Undefined,
                                         description |-> ""]
    ELSE [found |-> FALSE, url |-> Undefined, description |-> ""]

(***************************************************************************)
(* URLs                                                                    *)
(***************************************************************************)
\* The scheme of an absolute URL with its colon ("https:"), "" when the
\* string does not start with a scheme (new URL(string) then throws).
UrlProtocol(s) ==
    LET colon == IndexFrom(s, ":", 1)
    IN IF /\ colon <= Len(s)
          /\ colon > 1
          /\ \A i \in 1..(colon - 1) : Ch(s, i) \in LetterSet
       THEN ToLowerCase(SubSeq(s, 1, colon))
       ELSE ""

\* new URL(string).hostname of an http(s) URL: the authority between "//"
\* and the next "/", lower-cased.
UrlHostname(s) ==
    LET colon == IndexFrom(s, ":", 1)
        start == colon + 3
        slash == IndexFrom(s, "/", start)
    IN IF SubSeq(s, colon + 1, colon + 2) = "//"
       THEN ToLowerCase(SubSeq(s, start, slash - 1))
       ELSE ""

\* new URL(string) succeeds: a scheme, and for http(s) a non-empty host.
UrlParses(s) ==
    /\ UrlProtocol(s) # ""
    /\ UrlProtocol(s) \in {"http:", "https:"} => UrlHostname(s) # ""

isValidUrl(v) ==
    /\ IsString(v)
    /\ UrlParses(v.str)
    /\ UrlProtocol(v.str) \in {"http:", "https:"}

(***************************************************************************)
(* Input Sanitizer / Validator                                             *)
(***************************************************************************)
PageNameChars == CharsOf(LowerChars \o DigitChars \o "-_")
MaxPageNameLen == 50

RECURSIVE StripChars(_, _)
StripChars(s, allowed) ==
    IF s = "" THEN ""
    ELSE (IF Ch(s, 1) \in allowed THEN Ch(s, 1) ELSE "")
         \o StripChars(SubSeq(s, 2, Len(s)), allowed)

\* A sanitizer that cuts to 50 characters before it strips.
sanitizePageName_TruncateFirst(page) ==
    IF ~IsString(page) \/ page.str = "" THEN ""
    ELSE StripChars(ToLowerCase(SubSeq(page.str, 1,
                        IF Len(page.str) < MaxPageNameLen
                        THEN Len(page.str) ELSE MaxPageNameLen)),
                    PageNameChars)

sanitizePageName(page) ==
    IF ~IsString(page) \/ page.str = "" THEN ""
    ELSE LET stripped == StripChars(ToLowerCase(page.str), PageNameChars)
         IN SubSeq(stripped, 1, IF Len(stripped) < MaxPageNameLen
                                THEN Len(stripped) ELSE MaxPageNameLen)

HostnameEdgeChars == CharsOf(LowerChars \o UpperChars \o DigitChars)
HostnameInnerChars == HostnameEdgeChars \cup {"-", "."}
MaxHostnameLen == 255

\* A validator that checks the length only.
validateHostname_LengthOnly(hostname) ==
    /\ IsString(hostname)
    /\ hostname.str # ""
    /\ Len(hostname.str) < MaxHostnameLen

validateHostname(hostname) ==
    /\ IsString(hostname)
    /\ hostname.str # ""
    /\ LET h == hostname.str
       IN /\ Len(h) >= 2
          /\ Ch(h, 1) \in HostnameEdgeChars
          /\ Ch(h, Len(h)) \in HostnameEdgeChars
          /\ \A i \in 2..(Len(h) - 1) : Ch(h, i) \in HostnameInnerChars
          /\ Len(h) < MaxHostnameLen

(***************************************************************************)
(* Reachability Prober                                                     *)
(***************************************************************************)
\* What one fetch attempt comes to: a response with a status, or a
\* network-level failure (AbortError when the attempt's timer aborted it,
\* TypeError for DNS / CORS / connection failures).
Response(status) == [kind |-> "response", status |-> status]
FetchError(name, message) == [kind |-> "error", name |-> name, message |-> message]

ResponseOk(status) == status >= 200 /\ status <= 299

\* An access check that knows 401 only.
IsAuthDeniedStatus_Only401(status) == status = 401

\* An access check that takes every error status for a denial.
IsAuthDeniedStatus_AnyError(status) == status >= 400

\* response.status === 401 || response.status === 403
IsAuthDeniedStatus(status) == status = 401 \/ status = 403

\* A probe for which only an ok response is final.
IsFinalResponse_OkOnly(status) == ResponseOk(status)

\* A probe for which every response is final.
IsFinalResponse_AnyResponse(status) == TRUE

\* The probe returns this response at once, without another attempt.
IsFinalResponse(status) == ResponseOk(status) \/ IsAuthDeniedStatus(status)

\* A failed attempt ends the probe: the last attempt, or an abort on any
\* attempt after the first.
IsFinalError(name, attempt, maxRetries) ==
    attempt = maxRetries \/ (name = "AbortError" /\ attempt >= 1)

AttemptTimeout(baseTimeout, attempt) == baseTimeout + attempt * 1000
\* A backoff that grows by 500 ms with each attempt.
BackoffWait_Linear(attempt) == (attempt + 1) * 500

BackoffWait(attempt) == (2 ^ attempt) * 500

FailedAfterMessage(maxRetries, lastMessage) ==
    "Failed after " \o ToString(maxRetries + 1) \o " attempts. Last error: "
    \o lastMessage

\* The loop of fetchWithRetry from attempt on, as far as the outcomes that
\* have arrived decide it; outcomes[attempt + 1] is what the fetch of that
\* attempt comes to.  timeouts and waits collect the abort timer of each
\* attempt started and each backoff wait started; attempts counts the fetch
\* requests issued.  While the outcome of an attempt has not arrived the
\* promise is pending.
RECURSIVE FetchLoop(_, _, _, _, _, _)
FetchLoop(outcomes, attempt, maxRetries, baseTimeout, timeouts, waits) ==
    LET ts == Append(timeouts, AttemptTimeout(baseTimeout, attempt))
    IN IF attempt + 1 > Len(outcomes)
       THEN [settled |-> "pending",
             attempts |-> attempt + 1, timeouts |-> ts, waits |-> waits]
       ELSE LET o == outcomes[attempt + 1]
            IN IF o.kind = "response"
               THEN IF IsFinalResponse(o.status) \/ attempt = maxRetries
                    THEN [settled |-> "resolved", status |-> o.status,
                          attempts |-> attempt + 1, timeouts |-> ts, waits |-> waits]
                    ELSE FetchLoop(outcomes, attempt + 1, maxRetries, baseTimeout,
                                   ts, Append(waits, BackoffWait(attempt)))
               ELSE IF IsFinalError(o.name, attempt, maxRetries)
                    THEN [settled |-> "rejected",
                          error |-> [name |-> "Error",
                                     message |-> FailedAfterMessage(maxRetries,
                                                                    o.message)],
                          attempts |-> attempt + 1, timeouts |-> ts, waits |-> waits]
                    ELSE FetchLoop(outcomes, attempt + 1, maxRetries, baseTimeout,
                                   ts, Append(waits, BackoffWait(attempt)))

\* A prober that makes one attempt more than maxRetries allows.
fetchWithRetry_OneMore(outcomes, maxRetries, baseTimeout) ==
    FetchLoop(outcomes, 0, maxRetries + 1, baseTimeout, <<>>, <<>>)

fetchWithRetry(outcomes, maxRetries, baseTimeout) ==
    FetchLoop(outcomes, 0, maxRetries, baseTimeout, <<>>, <<>>)

\* No probe was issued.
NoFetch == [settled |-> "none", attempts |-> 0, timeouts |-> <<>>, waits |-> <<>>]

(***************************************************************************)
(* Navigation Policy Engine: execute                                       *)
(***************************************************************************)
ProbeMaxRetries == 2
ProbeBaseTimeout == 2000

\* No value was assigned to window.location.href.
NoNavigation == ""

Failed(msg) == [status |-> "FAILED", msg |-> msg]

\* A region check that tells only US from non-US apart.
IsCrossRegion_UsOnly(currentEnv, targetEnv) ==
    (currentEnv.type = "US_PRODUCTION") # (targetEnv.type = "US_PRODUCTION")

\* currentEnv.type !== targetEnv.type
IsCrossRegion(currentEnv, targetEnv) == currentEnv.type # targetEnv.type

\* A domain test that takes a host outside the AskCody domains for the
\* target's own.
IsCrossDomain_KnownHostsOnly(targetHostname, currentHostname) ==
    targetHostname # currentHostname /\ Includes(currentHostname, "askcody.com")

\* targetUrl.hostname !== currentHostname
IsCrossDomain(targetHostname, currentHostname) == targetHostname # currentHostname

\* Confirmation data without the page description.
ConfirmationData_NoDescription(rawPage, pageInfo, targetHostname, currentHostname) ==
    [page |-> rawPage,
     targetUrl |-> pageInfo.url.str,
     targetHostname |-> targetHostname,
     currentHostname |-> currentHostname,
     requiresConfirmation |-> TRUE]

ConfirmationData(rawPage, pageInfo, targetHostname, currentHostname) ==
    [page |-> rawPage,
     pageDescription |-> pageInfo.description,
     targetUrl |-> pageInfo.url.str,
     targetHostname |-> targetHostname,
     currentHostname |-> currentHostname,
     requiresConfirmation |-> TRUE]

PermissionData(rawPage, pageInfo, status) ==
    [page |-> rawPage,
     pageDescription |-> pageInfo.description,
     targetUrl |-> pageInfo.url.str,
     errorCode |-> status,
     requiresPermissionError |-> TRUE]

\* The advisory message of the probe's catch block.
ProbeErrorMessage(error) ==
    IF Includes(error.message, "Failed after") THEN "taking_slow_connection"
    ELSE IF error.name = "AbortError" THEN "taking_loading_slowly"
    ELSE "taking"

\* execute has not returned: it awaits the probe.
NotReturned == [status |-> "NOT_RETURNED", msg |-> ""]

\* pageInfo before the catalog lookup.
NoPageInfo == [found |-> FALSE, url |-> Undefined, description |-> ""]

\* What an execute call has come to: its return value, the value it assigned
\* to window.location.href, its probe, and the catalog entry it holds.
Outcome(ret, nav, fetch, pageInfo) ==
    [ret |-> ret, nav |-> nav, fetch |-> fetch, pageInfo |-> pageInfo]

\* The same-domain branch: probe, then navigate unless access is denied.
ProbeAndNavigate(rawPage, pageInfo, outcomes) ==
    LET f == fetchWithRetry(outcomes, ProbeMaxRetries, ProbeBaseTimeout)
    IN IF f.settled = "pending"
       THEN Outcome(NotReturned, NoNavigation, f, pageInfo)
       ELSE IF f.settled = "resolved"
       THEN IF IsAuthDeniedStatus(f.status)
            THEN Outcome([status |-> "PERMISSION_DENIED", msg |-> "no_permission",
                          data |-> PermissionData(rawPage, pageInfo, f.status)],
                         NoNavigation, f, pageInfo)
            ELSE Outcome([status |-> "SUCCESS", msg |-> "taking_now"],
                         pageInfo.url.str, f, pageInfo)
       ELSE Outcome([status |-> "SUCCESS", msg |-> ProbeErrorMessage(f.error)],
                    pageInfo.url.str, f, pageInfo)

\* execute from the catalog entry on: URL validation, the region and domain
\* policy, and the same-domain probe.
ExecuteFrom(currentHostname, rawPage, pageInfo, outcomes) ==
    IF ~isValidUrl(pageInfo.url)
    THEN Outcome(Failed("invalid_url"), NoNavigation, NoFetch, pageInfo)
    ELSE LET targetHostname == UrlHostname(pageInfo.url.str)
             currentEnv == getEnvironmentFromHostname(currentHostname)
             targetEnv == getEnvironmentFromHostname(targetHostname)
         IN IF IsCrossRegion(currentEnv, targetEnv)
            THEN Outcome(Failed("cross_region"), NoNavigation, NoFetch, pageInfo)
            ELSE IF IsCrossDomain(targetHostname, currentHostname)
            THEN Outcome([status |-> "PENDING_CONFIRMATION", msg |-> "confirm",
                          data |-> ConfirmationData(rawPage, pageInfo,
                                       targetHostname, currentHostname)],
                         NoNavigation, NoFetch, pageInfo)
            ELSE ProbeAndNavigate(rawPage, pageInfo, outcomes)

\* Object.keys(pages): the catalog's keys in the order of the literal.
PageKeys ==
    <<"dashboard", "home", "settings", "admin-center", "services", "visitors",
      "guests", "insights", "analytics", "reports", "central", "events", "maps",
      "floor-plans", "bookings", "reservations", "meeting-rooms">>

\* s.substring(0, 3)
Prefix3(s) == SubSeq(s, 1, IF Len(s) < 3 THEN Len(s) ELSE 3)

\* The suggestions of the page-not-found message: the first three keys that
\* contain the start of the page name or whose start the page name contains.
Suggestions(page) ==
    LET Overlaps(key) ==
            Includes(key, Prefix3(page)) \/ Includes(page, Prefix3(key))
        matching == SelectSeq(PageKeys, Overlaps)
    IN SubSeq(matching, 1, IF Len(matching) < 3 THEN Len(matching) ELSE 3)

\* The page-not-found failure: its message holds the suggestions, when there
\* are any, and the text of getAvailablePagesDescription.
NotFound(page) ==
    [status |-> "FAILED", msg |-> "page_not_found",
     suggestions |-> Suggestions(page), listing |-> "available_pages"]

\* execute(params) with window.location.hostname = rawHostname, as far as
\* the probe outcomes that have arrived take it.
execute(rawPage, rawHostname, outcomes) ==
    IF ~IsString(rawPage) \/ rawPage.str = ""
    THEN Outcome(Failed("not_understood"), NoNavigation, NoFetch, NoPageInfo)
    ELSE LET page == sanitizePageName(rawPage)
         IN IF page = ""
            THEN Outcome(Failed("invalid_characters"),
                         NoNavigation, NoFetch, NoPageInfo)
            ELSE IF ~validateHostname(rawHostname)
            THEN Outcome(Failed("no_location"), NoNavigation, NoFetch, NoPageInfo)
            ELSE LET pageInfo == PageLookup(getPageMapping(rawHostname.str), page)
                 IN IF ~pageInfo.found
                    THEN Outcome(NotFound(page), NoNavigation, NoFetch, pageInfo)
                    ELSE ExecuteFrom(rawHostname.str, rawPage.str, pageInfo,
                                     outcomes)

(***************************************************************************)
(* Confirmation Dialog Controller: render and its click handlers           *)
(*                                                                         *)
(* The handlers are state transformers over a record w of the page state   *)
(* they touch: href, the host element's content, the open session and its  *)
(* buttons, the outcomes delivered to the host, and the effect log.        *)
(***************************************************************************)
RECURSIVE EscapeHTML(_)
EscapeHTML(s) ==
    IF s = "" THEN ""
    ELSE (CASE Ch(s, 1) = "&" -> "&amp;"
            [] Ch(s, 1) = "<" -> "&lt;"
            [] Ch(s, 1) = ">" -> "&gt;"
            [] OTHER -> Ch(s, 1)) \o EscapeHTML(SubSeq(s, 2, Len(s)))

\* sanitizeHTML(str): div.textContent = str; return div.innerHTML
sanitizeHTML(str) == EscapeHTML(str)

\* data.data.<f> || '' for a string property
DataField(d, f) == IF f \in DOMAIN d.data THEN d.data[f] ELSE ""

\* data?.data?.requiresConfirmation
NeedsConfirmation(d) ==
    /\ "data" \in DOMAIN d
    /\ "requiresConfirmation" \in DOMAIN d.data
    /\ d.data.requiresConfirmation

\* data?.data?.requiresPermissionError
NeedsPermissionError(d) ==
    /\ "data" \in DOMAIN d
    /\ "requiresPermissionError" \in DOMAIN d.data
    /\ d.data.requiresPermissionError

NoSession == [id |-> 0, targetUrl |-> "", safePage |-> ""]

\* announceToScreenReader: an aria-live node is appended to document.body.
Announce(w) ==
    [w EXCEPT !.announcements = @ + 1, !.log = Append(@, "announce")]

\* The host's callback (via = "callback") or cancel (via = "cancel") is
\* invoked with an outcome of the given status.
Deliver(w, via, status) ==
    [w EXCEPT !.delivered = Append(@, [session |-> w.session.id,
                                        via |-> via, status |-> status]),
              !.log = Append(@, via \o ":" \o status)]

\* The catch block of handleContinue.
ContinueCatch(w) ==
    Deliver([w EXCEPT !.continueDisabled = FALSE,
                      !.cancelDisabled = FALSE,
                      !.errorDiv = TRUE,
                      !.log = @ \o (IF w.errorDiv THEN <<"enable">>
                                    ELSE <<"enable", "errorDiv">>)],
            "callback", "FAILED")

\* A try block that reports SUCCESS before it disables and navigates.
ContinueTry_CallbackFirst(w) ==
    LET told == Deliver(w, "callback", "SUCCESS")
        disabled == [told EXCEPT !.continueDisabled = TRUE,
                                 !.cancelDisabled = TRUE,
                                 !.log = Append(@, "disable")]
        announced == Announce(disabled)
    IN [announced EXCEPT !.href = w.session.targetUrl,
                         !.log = Append(@, "navigate")]

\* The try block of handleContinue for a valid target URL, up to and
\* including the call of callback.
ContinueTry(w) ==
    LET disabled == [w EXCEPT !.continueDisabled = TRUE,
                              !.cancelDisabled = TRUE,
                              !.log = Append(@, "disable")]
        announced == Announce(disabled)
        navigated == [announced EXCEPT !.href = w.session.targetUrl,
                                       !.log = Append(@, "navigate")]
    IN Deliver(navigated, "callback", "SUCCESS")

\* Click on #ac-continue; callbackThrows: the host's callback throws.
handleContinue(w, callbackThrows) ==
    LET clicked == [w EXCEPT !.log = <<"click:continue">>]
    IN IF isValidUrl(Str(w.session.targetUrl))
       THEN IF callbackThrows THEN ContinueCatch(ContinueTry(clicked))
            ELSE ContinueTry(clicked)
       ELSE ContinueCatch(clicked)

\* The catch block of handleCancel: the host's content is replaced by the
\* "staying here" panel, which detaches the dialog and its buttons.
CancelCatch(w) ==
    [w EXCEPT !.hostContent = "stayPanel",
              !.listeners = {},
              !.session = NoSession,
              !.continueDisabled = FALSE,
              !.cancelDisabled = FALSE,
              !.errorDiv = FALSE,
              !.log = Append(@, "stayPanel")]

\* A cancel handler that navigates all the same.
handleCancel_Navigates(w, cancelThrows) ==
    LET announced == Announce([w EXCEPT !.log = <<"click:cancel">>,
                                        !.href = w.session.targetUrl])
        told == Deliver(announced, "cancel", "CANCELLED")
    IN IF cancelThrows THEN CancelCatch(told) ELSE told

\* Click on #ac-cancel; cancelThrows: the host's cancel throws.
handleCancel(w, cancelThrows) ==
    LET announced == Announce([w EXCEPT !.log = <<"click:cancel">>])
        told == Deliver(announced, "cancel", "CANCELLED")
    IN IF cancelThrows THEN CancelCatch(told) ELSE told

\* Click on #ac-close of the access-denied panel.
handleClose(w) ==
    Deliver([w EXCEPT !.log = <<"click:close">>], "callback", "ACKNOWLEDGED")

\* The catch block of render.
RenderCatch(w) ==
    Deliver([w EXCEPT !.hostContent = "renderError",
                      !.listeners = {},
                      !.log = Append(@, "errorPanel")],
            "cancel", "FAILED")

\* host.innerHTML = "": whatever render put there before is detached.
ClearHost(w) ==
    [w EXCEPT !.hostContent = "empty",
              !.listeners = {},
              !.session = NoSession,
              !.continueDisabled = FALSE,
              !.cancelDisabled = FALSE,
              !.errorDiv = FALSE,
              !.log = Append(@, "clear")]

\* The access-denied panel with its close button.
RenderPermissionError(w, d) ==
    [w EXCEPT !.hostContent = "permission",
              !.listeners = {"close"},
              !.session = [id |-> 0, targetUrl |-> "",
                           safePage |-> sanitizeHTML(DataField(d, "page"))],
              !.log = Append(@, "permission")]

\* The confirmation dialog: a new session with its two buttons.
RenderConfirmation(w, d) ==
    LET safePage == sanitizeHTML(DataField(d, "page"))
        safeTargetUrl == sanitizeHTML(DataField(d, "targetUrl"))
    IN IF safePage = "" \/ safeTargetUrl = ""
       THEN RenderCatch(w)
       ELSE LET shown == [w EXCEPT !.hostContent = "dialog",
                                   !.sessions = @ + 1,
                                   !.session = [id |-> w.sessions + 1,
                                                targetUrl |-> DataField(d, "targetUrl"),
                                                safePage |-> safePage],
                                   !.log = Append(@, "dialog")]
            IN [Announce(shown) EXCEPT !.listeners = {"continue", "cancel"}]

\* A render that clears the host before it looks at the data.
render_ClearFirst(w, d, hostPresent) ==
    LET called == [w EXCEPT !.log = <<"render">>]
    IN IF ~hostPresent
       THEN [called EXCEPT !.log = Append(@, "return:no-host")]
       ELSE IF ~NeedsConfirmation(d) /\ ~NeedsPermissionError(d)
       THEN [ClearHost(called) EXCEPT !.log = Append(@, "return:nothing-to-render")]
       ELSE IF NeedsPermissionError(d)
            THEN RenderPermissionError(ClearHost(called), d)
            ELSE RenderConfirmation(ClearHost(called), d)

\* render(data, host, header, callback, cancel, isUpdateState); hostPresent:
\* host is an element.
render(w, d, hostPresent) ==
    LET called == [w EXCEPT !.log = <<"render">>]
    IN IF ~NeedsConfirmation(d) /\ ~NeedsPermissionError(d)
       THEN [called EXCEPT !.log = Append(@, "return:nothing-to-render")]
       ELSE IF ~hostPresent
       THEN [called EXCEPT !.log = Append(@, "return:no-host")]
       ELSE IF NeedsPermissionError(d)
            THEN RenderPermissionError(ClearHost(called), d)
            ELSE RenderConfirmation(ClearHost(called), d)

(***************************************************************************)
(* State                                                                   *)
(***************************************************************************)
VARIABLES
    locationHostname,   \* window.location.hostname
    href,               \* the value last assigned to window.location.href
    exec,               \* the execute call in progress or last returned
    hostContent,        \* what render has put into the host element
    session,            \* the open dialog: what its handlers close over
    continueDisabled,   \* #ac-continue is disabled
    cancelDisabled,     \* #ac-cancel is disabled
    listeners,          \* buttons in the host that have a click listener
    errorDiv,           \* the inline [data-error] message is in the dialog
    delivered,          \* the outcomes passed to the host's callback / cancel
    log,                \* the effects of the latest operation, in order
    announcements,      \* aria-live nodes in document.body
    sessions            \* confirmation dialogs opened so far

vars == <<locationHostname, href, exec, hostContent, session, continueDisabled,
          cancelDisabled, listeners, errorDiv, delivered, log, announcements,
          sessions>>

dialogVars == <<hostContent, session, continueDisabled, cancelDisabled,
                listeners, errorDiv, delivered, announcements, sessions>>

\* The page state as the record the handlers transform.
Window ==
    [href |-> href, hostContent |-> hostContent, session |-> session,
     continueDisabled |-> continueDisabled, cancelDisabled |-> cancelDisabled,
     listeners |-> listeners, errorDiv |-> errorDiv, delivered |-> delivered,
     log |-> log, announcements |-> announcements, sessions |-> sessions]

\* The page state becomes w.
Becomes(w) ==
    /\ href' = w.href
    /\ hostContent' = w.hostContent
    /\ session' = w.session
    /\ continueDisabled' = w.continueDisabled
    /\ cancelDisabled' = w.cancelDisabled
    /\ listeners' = w.listeners
    /\ errorDiv' = w.errorDiv
    /\ delivered' = w.delivered
    /\ log' = w.log
    /\ announcements' = w.announcements
    /\ sessions' = w.sessions

(***************************************************************************)
(* Inputs and bounds                                                       *)
(***************************************************************************)
\* Handlers run while fewer outcomes than this have been delivered.
MaxDelivered == 2
\* render is called while fewer dialogs than this have been opened.
MaxSessions == 2

\* A well-formed hostname of 254 characters, and one of 255.
Hostname254 ==
    LET label == SubSeq(LowerChars \o LowerChars, 1, 50)
    IN label \o "." \o label \o "." \o label \o "." \o label \o "." \o label

Hostname255 == Hostname254 \o "a"

Hostnames ==
    {Str(Hostname254), Str(Hostname255),
     Str("app.onaskcody.com"), Str("eu.onaskcody.com"),
     Str("app.goaskcody.com"), Str("us.goaskcody.com"),
     Str("app.testaskcody.com"), Str("eu.testaskcody.com"),
     Str("localhost"), Str("APP.onaskcody.com"),
     Str("goaskcody.com.testaskcody.com"),
     Str(""), Str("a"), Str("bad host"), Undefined}

RawPages ==
    {Str("dashboard"), Str("Dashboard!!"),
     Str("central"), Str("meeting-rooms"),
     Str("nosuchpage"), Str("s"), Str("constructor"), Str("__proto__"),
     Str("!!!"), Str(""),
     Undefined, NotAString}

AttemptOutcomes ==
    {Response(200), Response(401), Response(403), Response(404), Response(500),
     FetchError("AbortError", "The operation was aborted."),
     FetchError("TypeError", "Failed to fetch")}

\* What the host passes to render as data: a value execute returned, or
\* that value damaged (no data, no page, no target URL, a target URL that
\* is no http(s) URL, no requiresConfirmation flag).
Without(r, f) == [g \in DOMAIN r \ {f} |-> r[g]]

RenderInputs(ret) ==
    {ret} \cup
    (IF ret.status = "PENDING_CONFIRMATION"
     THEN {Without(ret, "data"),
           [ret EXCEPT !.data = Without(ret.data, "page")],
           [ret EXCEPT !.data = Without(ret.data, "targetUrl")],
           [ret EXCEPT !.data = Without(ret.data, "requiresConfirmation")],
           [ret EXCEPT !.data.targetUrl = "javascript:alert(1)"]}
     ELSE {})

NoExec ==
    [phase |-> "idle", rawPage |-> Undefined, currentHostname |-> Undefined,
     outcomes |-> <<>>, ret |-> NotReturned, nav |-> NoNavigation,
     fetch |-> NoFetch, pageInfo |-> NoPageInfo]

Init ==
    /\ locationHostname \in Hostnames
    /\ href = NoNavigation
    /\ exec = NoExec
    /\ hostContent = "untouched"
    /\ session = NoSession
    /\ continueDisabled = FALSE
    /\ cancelDisabled = FALSE
    /\ listeners = {}
    /\ errorDiv = FALSE
    /\ delivered = <<>>
    /\ log = <<>>
    /\ announcements = 0
    /\ sessions = 0

(***************************************************************************)
(* Operations                                                              *)
(***************************************************************************)
\* The state of an execute call that has come to r.
ExecState(rawPage, currentHostname, outcomes, r) ==
    [phase |-> IF r.ret = NotReturned THEN "probing" ELSE "returned",
     rawPage |-> rawPage, currentHostname |-> currentHostname,
     outcomes |-> outcomes, ret |-> r.ret, nav |-> r.nav, fetch |-> r.fetch,
     pageInfo |-> r.pageInfo]

\* The host calls execute({page: rawPage}); it runs to its await of the
\* probe or to its return.  A behaviour follows one navigation request:
\* execute keeps no state between calls.
ExecuteCall ==
    /\ exec.phase = "idle"
    /\ \E rawPage \in RawPages :
          exec' = ExecState(rawPage, locationHostname, <<>>,
                            execute(rawPage, locationHostname, <<>>))
    /\ log' = <<"execute">>
    /\ UNCHANGED <<locationHostname, href, dialogVars>>

\* The fetch of the probe's current attempt comes to outcome o; when that
\* settles the probe, execute resumes, navigates and returns.
ProbeAttempt ==
    /\ exec.phase = "probing"
    /\ \E o \in AttemptOutcomes :
          LET outcomes == Append(exec.outcomes, o)
              r == ProbeAndNavigate(exec.rawPage.str, exec.pageInfo, outcomes)
          IN /\ exec' = ExecState(exec.rawPage, exec.currentHostname, outcomes, r)
             /\ href' = IF r.nav # NoNavigation THEN r.nav ELSE href
             /\ log' = IF r.nav # NoNavigation THEN <<"probe", "navigate">>
                       ELSE <<"probe">>
    /\ UNCHANGED <<locationHostname, dialogVars>>

\* The host calls render with data d and its host element, or without one.
Render ==
    /\ exec.phase = "returned"
    /\ sessions < MaxSessions
    /\ Len(delivered) < MaxDelivered
    /\ \E d \in RenderInputs(exec.ret), hostPresent \in BOOLEAN :
          Becomes(render(Window, d, hostPresent))
    /\ UNCHANGED <<locationHostname, exec>>

\* The user clicks the dialog's continue button.
ClickContinue ==
    /\ hostContent = "dialog"
    /\ "continue" \in listeners
    /\ ~continueDisabled
    /\ Len(delivered) < MaxDelivered
    /\ \E callbackThrows \in BOOLEAN :
          Becomes(handleContinue(Window, callbackThrows))
    /\ UNCHANGED <<locationHostname, exec>>

\* The user clicks the dialog's cancel button.
ClickCancel ==
    /\ hostContent = "dialog"
    /\ "cancel" \in listeners
    /\ ~cancelDisabled
    /\ Len(delivered) < MaxDelivered
    /\ \E cancelThrows \in BOOLEAN :
          Becomes(handleCancel(Window, cancelThrows))
    /\ UNCHANGED <<locationHostname, exec>>

\* The user clicks the close button of the access-denied panel.
ClickClose ==
    /\ hostContent = "permission"
    /\ "close" \in listeners
    /\ Len(delivered) < MaxDelivered
    /\ Becomes(handleClose(Window))
    /\ UNCHANGED <<locationHostname, exec>>

\* The user presses Escape while the dialog is open.  render registers no
\* keydown listener, so no handler runs.
PressEscape ==
    /\ hostContent = "dialog"
    /\ log' = <<"keydown:Escape">>
    /\ UNCHANGED <<locationHostname, exec, href, dialogVars>>

\* The user clicks outside the dialog's buttons.  render registers click
\* listeners on the two buttons only, so no handler runs.
ClickBackdrop ==
    /\ hostContent = "dialog"
    /\ log' = <<"click:backdrop">>
    /\ UNCHANGED <<locationHostname, exec, href, dialogVars>>

\* The inline Close button of the render-error panel hides the panel.
CloseErrorPanel ==
    /\ hostContent = "renderError"
    /\ hostContent' = "renderErrorHidden"
    /\ log' = <<"click:errorClose">>
    /\ UNCHANGED <<locationHostname, exec, href, session, continueDisabled,
                   cancelDisabled, listeners, errorDiv, delivered,
                   announcements, sessions>>

\* The 5 s timer of handleContinue's catch block removes the inline error.
ErrorDivTimeout ==
    /\ errorDiv
    /\ errorDiv' = FALSE
    /\ UNCHANGED <<locationHostname, exec, href, hostContent, session, continueDisabled,
                   cancelDisabled, listeners, delivered, log, announcements,
                   sessions>>

\* A timer callback that leaves the announcement node where it is.
AnnouncementTimeout_KeepsNode ==
    /\ announcements > 0
    /\ UNCHANGED <<locationHostname, exec, href, hostContent, session, continueDisabled,
                   cancelDisabled, listeners, errorDiv, delivered, log, sessions,
                   announcements>>

\* The 1 s timer of announceToScreenReader removes an announcement node.
AnnouncementTimeout ==
    /\ announcements > 0
    /\ announcements' = announcements - 1
    /\ UNCHANGED <<locationHostname, exec, href, hostContent, session, continueDisabled,
                   cancelDisabled, listeners, errorDiv, delivered, log, sessions>>

Next ==
    \/ ExecuteCall
    \/ ProbeAttempt
    \/ Render
    \/ ClickContinue
    \/ ClickCancel
    \/ ClickClose
    \/ PressEscape
    \/ ClickBackdrop
    \/ CloseErrorPanel
    \/ ErrorDivTimeout
    \/ AnnouncementTimeout

Spec == Init /\ [][Next]_vars

(***************************************************************************)
(* The policy step on its own.  The catalog execute looks a page up in is  *)
(* built from the current hostname's own environment; here the steps of    *)
(* execute that follow the lookup are applied to the entries of every      *)
(* environment's catalog, so that every pairing of a current hostname with *)
(* a target hostname is decided.                                           *)
(***************************************************************************)
Environments ==
    {getEnvironmentFromHostname(h.str) : h \in {g \in Hostnames : validateHostname(g)}}

PolicyExecute ==
    /\ exec.phase = "idle"
    /\ validateHostname(locationHostname)
    /\ \E env \in Environments :
          \E key \in DOMAIN PagesOf(env) :
             exec' = ExecState(Str(key), locationHostname, <<>>,
                               ExecuteFrom(locationHostname.str, key,
                                           PageLookup(PagesOf(env), key), <<>>))
    /\ log' = <<"execute">>
    /\ UNCHANGED <<locationHostname, href, dialogVars>>

PolicyNext == PolicyExecute \/ ProbeAttempt \/ Render

PolicySpec == Init /\ [][PolicyNext]_vars

(***************************************************************************)
(* Properties                                                              *)
(***************************************************************************)
\* The utility functions tabulated over the inputs of the model, for the
\* properties below: a state is judged by looking the values up.
ValidHostnames == {h \in Hostnames : validateHostname(h)}

CatalogOf == [h \in ValidHostnames |-> getPageMapping(h.str)]

PageNameOf ==
    [p \in RawPages \cup {Str(k) : k \in DOMAIN PagesOf(getEnvironmentFromHostname(""))}
        |-> sanitizePageName(p)]

CatalogUrls ==
    UNION {{PagesOf(env)[k].url : k \in DOMAIN PagesOf(env)} : env \in Environments}

TargetHostnameOf == [u \in CatalogUrls |-> UrlHostname(u)]

\* The target URLs a dialog can hold that handleContinue accepts.
ValidTargetUrls ==
    {u \in CatalogUrls \cup {"javascript:alert(1)", ""} : isValidUrl(Str(u))}

EnvTypeOf ==
    [h \in {g.str : g \in ValidHostnames} \cup {TargetHostnameOf[u] : u \in CatalogUrls}
        |-> getEnvironmentFromHostname(h).type]

\* The page name execute looked up, and whether the call reached a catalog
\* entry of the current hostname's catalog.
ExecPage == PageNameOf[exec.rawPage]

ExecIsCatalogPage ==
    /\ exec.phase # "idle"
    /\ exec.currentHostname \in ValidHostnames
    /\ IsString(exec.rawPage)
    /\ ExecPage \in DOMAIN CatalogOf[exec.currentHostname]

ExecEntry == CatalogOf[exec.currentHostname][ExecPage]

TypeOfHost(h) == EnvTypeOf[h]

\* The last outcome the probe has seen is a response with status 401 or 403.
LastOutcomeDenied ==
    /\ exec.outcomes # <<>>
    /\ LET last == exec.outcomes[Len(exec.outcomes)]
       IN last.kind = "response" /\ last.status \in {401, 403}

\* The outcomes delivered to the host for session id.
DeliveredFor(id) == {i \in DOMAIN delivered : delivered[i].session = id}

LastDelivered == delivered[Len(delivered)]

\* execute was applied to an entry whose URL's hostname lies in another
\* environment than the current hostname.
ExecCrossRegionPair ==
    /\ exec.phase # "idle"
    /\ IsString(exec.pageInfo.url)
    /\ exec.pageInfo.url.str \in CatalogUrls
    /\ TypeOfHost(exec.currentHostname.str)
          # TypeOfHost(TargetHostnameOf[exec.pageInfo.url.str])

\* C1: whenever the environment type of the current hostname differs from
\* that of the target URL's hostname, execute has returned FAILED with the
\* cross-region message and no data, has issued no probe and has not set the
\* navigation target; it is never PENDING_CONFIRMATION, and no render call
\* with that decision opens a dialog.
C1_CrossRegionDenied ==
    ExecCrossRegionPair =>
        /\ exec.phase = "returned"
        /\ exec.ret.status = "FAILED"
        /\ exec.ret.msg = "cross_region"
        /\ "data" \notin DOMAIN exec.ret
        /\ exec.fetch = NoFetch
        /\ exec.nav = NoNavigation
        /\ href = NoNavigation
        /\ hostContent = "untouched"
        /\ delivered = <<>>

C1_Witness ==
    /\ ExecCrossRegionPair
    /\ exec.currentHostname = Str("app.onaskcody.com")
    /\ TargetHostnameOf[exec.pageInfo.url.str] = "app.goaskcody.com"
    /\ exec.ret.status = "FAILED"
    /\ log = <<"render", "return:nothing-to-render">>

\* C2: for a valid current hostname and a catalog page whose target hostname
\* differs from the current hostname within the same environment type,
\* execute has returned PENDING_CONFIRMATION whose data carries the catalog
\* URL, its hostname and the page description, without a probe and without
\* setting the navigation target.
C2_CrossDomainConfirm ==
    (/\ ExecIsCatalogPage
     /\ TargetHostnameOf[ExecEntry.url] # exec.currentHostname.str
     /\ TypeOfHost(TargetHostnameOf[ExecEntry.url])
           = TypeOfHost(exec.currentHostname.str))
    =>
        /\ exec.phase = "returned"
        /\ exec.ret.status = "PENDING_CONFIRMATION"
        /\ "data" \in DOMAIN exec.ret
        /\ {"targetUrl", "targetHostname", "pageDescription"} \subseteq DOMAIN exec.ret.data
        /\ exec.ret.data.targetUrl = ExecEntry.url
        /\ exec.ret.data.targetHostname = TargetHostnameOf[ExecEntry.url]
        /\ exec.ret.data.pageDescription = ExecEntry.description
        /\ exec.fetch = NoFetch
        /\ exec.nav = NoNavigation

C2_Witness ==
    /\ exec.phase = "returned"
    /\ exec.currentHostname = Str("app.onaskcody.com")
    /\ exec.rawPage = Str("central")
    /\ exec.ret.status = "PENDING_CONFIRMATION"
    /\ exec.ret.data.targetUrl = "https://eu.onaskcody.com/central/events"

\* C3: when the probe of a same-domain target has returned a response with
\* status 401 or 403, execute has returned PERMISSION_DENIED with that status
\* as data.errorCode, and the navigation target has not been set.
C3_PermissionDenied ==
    (exec.phase = "returned" /\ LastOutcomeDenied) =>
        /\ exec.ret.status = "PERMISSION_DENIED"
        /\ "data" \in DOMAIN exec.ret
        /\ exec.ret.data.errorCode = exec.outcomes[Len(exec.outcomes)].status
        /\ exec.nav = NoNavigation
        /\ href = NoNavigation

C3_Witness ==
    /\ exec.phase = "returned"
    /\ exec.currentHostname = Str("app.onaskcody.com")
    /\ exec.rawPage = Str("dashboard")
    /\ exec.outcomes = <<Response(500), Response(403)>>
    /\ exec.ret.status = "PERMISSION_DENIED"
    /\ exec.ret.data.errorCode = 403

\* C4: for a same-domain catalog page, once execute has returned and the
\* probe's last outcome is not a 401/403 response (an ok response, a non-ok
\* response after the retries, or a rejection after timeouts or network
\* errors), execute has set the navigation target to the catalog URL and
\* returned SUCCESS.
C4_FailOpen ==
    (/\ ExecIsCatalogPage
     /\ exec.phase = "returned"
     /\ TargetHostnameOf[ExecEntry.url] = exec.currentHostname.str
     /\ ~LastOutcomeDenied)
    =>
        /\ exec.ret.status = "SUCCESS"
        /\ exec.nav = ExecEntry.url
        /\ href = ExecEntry.url

C4_Witness ==
    /\ exec.phase = "returned"
    /\ exec.currentHostname = Str("app.onaskcody.com")
    /\ exec.rawPage = Str("dashboard")
    /\ exec.fetch.settled = "rejected"
    /\ exec.fetch.attempts = 3
    /\ exec.ret.status = "SUCCESS"
    /\ href = "https://app.onaskcody.com/manager/dashboard/"

\* C5: a confirmation session reaches exactly one terminal state: the host's
\* callbacks are invoked at most once in total for each session opened.
C5_OneOutcomePerSession ==
    \A id \in 1..sessions : Cardinality(DeliveredFor(id)) <= 1

\* C6: once an outcome of the open session has been delivered, the dialog it
\* rendered and the click listeners it registered are gone.
C6_TornDownOnTerminal ==
    (session.id >= 1 /\ DeliveredFor(session.id) # {}) =>
        /\ hostContent # "dialog"
        /\ listeners = {}

\* C7: a click on continue in a dialog whose target URL is valid first
\* disables both buttons, then sets the navigation target to the targetUrl
\* of the confirmation data, then calls the host's callback with SUCCESS.
C7_ContinueOrder ==
    (/\ log # <<>>
     /\ Head(log) = "click:continue"
     /\ session.targetUrl \in ValidTargetUrls)
    =>
        /\ Len(log) >= 5
        /\ SubSeq(log, 2, 5) = <<"disable", "announce", "navigate", "callback:SUCCESS">>
        /\ href = session.targetUrl
        /\ href = exec.ret.data.targetUrl
        /\ \E i \in DeliveredFor(session.id) :
              delivered[i].via = "callback" /\ delivered[i].status = "SUCCESS"
        /\ (Len(log) = 5 => (continueDisabled /\ cancelDisabled))

C7_Witness ==
    /\ log = <<"click:continue", "disable", "announce", "navigate", "callback:SUCCESS">>
    /\ href = "https://eu.onaskcody.com/central/events"
    /\ continueDisabled
    /\ cancelDisabled
    /\ LastDelivered.status = "SUCCESS"

\* A step in which the cancel handler ran.
CancelClicked ==
    /\ log' # <<>>
    /\ Head(log') = "click:cancel"
    /\ delivered' # delivered

\* C8: a click on cancel in an open dialog calls the host's cancel with
\* CANCELLED for that session and leaves the navigation target unchanged.
C8_CancelLeavesPage ==
    [][CancelClicked =>
          /\ href' = href
          /\ delivered' = Append(delivered, [session |-> session.id,
                                             via |-> "cancel",
                                             status |-> "CANCELLED"])]_vars

C8_Witness ==
    /\ log = <<"click:cancel", "announce", "cancel:CANCELLED">>
    /\ hostContent = "dialog"
    /\ delivered = <<[session |-> 1, via |-> "cancel", status |-> "CANCELLED"]>>
    /\ href = NoNavigation

\* C9: when an open dialog is dismissed with Escape or a click on the
\* backdrop, the session resolves with CANCELLED.
C9_DismissCancels ==
    (log # <<>> /\ Head(log) \in {"keydown:Escape", "click:backdrop"}) =>
        \E i \in DeliveredFor(session.id) : delivered[i].status = "CANCELLED"

\* C10: a render call for a PENDING_CONFIRMATION decision either opens the
\* dialog or shows the error panel and resolves the session with FAILED.
C10_RenderNeverSilent ==
    (/\ log # <<>>
     /\ Head(log) = "render"
     /\ exec.ret.status = "PENDING_CONFIRMATION")
    =>
        \/ hostContent = "dialog"
        \/ /\ hostContent = "renderError"
           /\ delivered # <<>>
           /\ LastDelivered.via = "cancel"
           /\ LastDelivered.status = "FAILED"

(***************************************************************************)
(* The prober on its own: fetchWithRetry called with any retry budget and  *)
(* base timeout, one fetch outcome arriving at a time.                     *)
(***************************************************************************)
\* fetchWithRetry is called with retry budgets up to this.
MaxProbeRetries == 3

\* baseTimeout: the value execute passes and the parameter's default.
BaseTimeouts == {ProbeBaseTimeout, 3000}

\* The state of a fetchWithRetry call that has seen outcomes.
FetchState(maxRetries, baseTimeout, outcomes) ==
    LET f == fetchWithRetry(outcomes, maxRetries, baseTimeout)
    IN [phase |-> IF f.settled = "pending" THEN "fetching" ELSE "settled",
        maxRetries |-> maxRetries, baseTimeout |-> baseTimeout,
        outcomes |-> outcomes, fetch |-> f]

\* fetchWithRetry(url, options, maxRetries, baseTimeout) is called and
\* issues its first fetch.
FetchCall ==
    /\ exec.phase = "idle"
    /\ \E maxRetries \in 0..MaxProbeRetries, baseTimeout \in BaseTimeouts :
          exec' = FetchState(maxRetries, baseTimeout, <<>>)
    /\ log' = <<"fetchWithRetry">>
    /\ UNCHANGED <<locationHostname, href, dialogVars>>

\* The fetch of the current attempt comes to outcome o.
FetchAttempt ==
    /\ exec.phase = "fetching"
    /\ \E o \in AttemptOutcomes :
          exec' = FetchState(exec.maxRetries, exec.baseTimeout,
                             Append(exec.outcomes, o))
    /\ log' = <<"fetch">>
    /\ UNCHANGED <<locationHostname, href, dialogVars>>

ProberNext == FetchCall \/ FetchAttempt

ProberSpec == Init /\ [][ProberNext]_vars

\* A response the probe takes for final: ok, or an authentication denial.
OkOrDenied(o) ==
    o.kind = "response" /\ (o.status \in 200..299 \/ o.status \in {401, 403})

\* A response that is neither.
OtherResponse(o) == o.kind = "response" /\ ~OkOrDenied(o)

\* A fetchWithRetry call is in progress or has settled.
FetchCalled == exec.phase \in {"fetching", "settled"}

\* C11: when attempt k of fetchWithRetry returns an ok response or a 401/403
\* response, the probe resolves with that response; it is the last attempt
\* started, and no backoff wait follows it.
C11_FinalResponseEndsProbe ==
    FetchCalled =>
        \A k \in 1..Len(exec.outcomes) :
            OkOrDenied(exec.outcomes[k]) =>
                /\ k = Len(exec.outcomes)
                /\ exec.phase = "settled"
                /\ exec.fetch.settled = "resolved"
                /\ exec.fetch.status = exec.outcomes[k].status
                /\ exec.fetch.attempts = k
                /\ Len(exec.fetch.timeouts) = k
                /\ Len(exec.fetch.waits) = k - 1

C11_Witness ==
    /\ FetchCalled
    /\ exec.maxRetries = 3
    /\ exec.outcomes = <<Response(500), Response(401)>>
    /\ exec.fetch.settled = "resolved"
    /\ exec.fetch.status = 401
    /\ exec.fetch.waits = <<500>>

\* Every attempt so far returned a response that is neither ok nor 401/403.
AllOtherResponses ==
    \A k \in 1..Len(exec.outcomes) : OtherResponse(exec.outcomes[k])

\* C12: while every attempt returns a non-ok response other than 401/403,
\* the probe goes on to attempt maxRetries + 1; when that one too returns
\* such a response, the probe resolves with it, having made exactly
\* maxRetries + 1 attempts.
C12_LastResponseReturned ==
    (FetchCalled /\ AllOtherResponses) =>
        /\ Len(exec.outcomes) <= exec.maxRetries + 1
        /\ Len(exec.outcomes) <= exec.maxRetries =>
              /\ exec.fetch.settled = "pending"
              /\ exec.fetch.attempts = Len(exec.outcomes) + 1
        /\ Len(exec.outcomes) = exec.maxRetries + 1 =>
              /\ exec.fetch.settled = "resolved"
              /\ exec.fetch.status = exec.outcomes[Len(exec.outcomes)].status
              /\ exec.fetch.attempts = exec.maxRetries + 1
              /\ Len(exec.fetch.waits) = exec.maxRetries

C12_Witness ==
    /\ FetchCalled
    /\ exec.maxRetries = 2
    /\ exec.outcomes = <<Response(500), Response(500), Response(404)>>
    /\ exec.fetch.settled = "resolved"
    /\ exec.fetch.status = 404
    /\ exec.fetch.attempts = 3

\* An attempt that failed at network level: a timeout (abort) or a DNS /
\* CORS / connection error.
NetworkFailure(o) == o.kind = "error"

\* Every attempt so far failed at network level.
AllNetworkFailures ==
    \A k \in 1..Len(exec.outcomes) : NetworkFailure(exec.outcomes[k])

\* C13: while every attempt fails at network level, the probe goes on to
\* attempt maxRetries + 1 with a backoff wait before each further attempt,
\* and rejects only when that last attempt has failed.
C13_NetworkFailuresRetried ==
    (FetchCalled /\ AllNetworkFailures) =>
        /\ Len(exec.outcomes) <= exec.maxRetries =>
              /\ exec.fetch.settled = "pending"
              /\ exec.fetch.attempts = Len(exec.outcomes) + 1
              /\ Len(exec.fetch.waits) = Len(exec.outcomes)
        /\ Len(exec.outcomes) = exec.maxRetries + 1 =>
              /\ exec.fetch.settled = "rejected"
              /\ exec.fetch.attempts = exec.maxRetries + 1
              /\ Len(exec.fetch.waits) = exec.maxRetries

\* An attempt aborted by its timer, and an attempt that failed otherwise.
TimedOut(o) == o.kind = "error" /\ o.name = "AbortError"
FailedWithoutTimeout(o) == o.kind = "error" /\ o.name # "AbortError"

\* Every attempt so far failed at network level without timing out.
AllFailedWithoutTimeout ==
    \A k \in 1..Len(exec.outcomes) : FailedWithoutTimeout(exec.outcomes[k])

\* The advisory message execute returns when every attempt of its probe
\* timed out.
AdvisoryWhenAllTimedOut ==
    LET timeout == FetchError("AbortError", "The operation was aborted.")
        probe == fetchWithRetry(<<timeout, timeout, timeout>>,
                                ProbeMaxRetries, ProbeBaseTimeout)
    IN ProbeErrorMessage(probe.error)

\* C14: when the probe of execute has failed on all attempts with network
\* errors that are not timeouts, the advisory SUCCESS message execute returns
\* is not the one it returns when all attempts timed out.
C14_TimeoutToldApart ==
    (/\ exec.phase = "returned"
     /\ exec.fetch.settled = "rejected"
     /\ AllFailedWithoutTimeout)
    =>
        /\ exec.ret.status = "SUCCESS"
        /\ exec.ret.msg # AdvisoryWhenAllTimedOut

(***************************************************************************)
(* The utility functions on their own: each is applied to an argument      *)
(* drawn from a set that covers its cases.                                 *)
(***************************************************************************)
\* Hostnames put together from a prefix, a core with or without the region
\* markers, and a suffix.
HostPrefixes == {"", "app.", "us.", "my"}

HostCores ==
    {"goaskcody.com", "testaskcody.com", "onaskcody.com", "example.org",
     "goaskcody.com.testaskcody.com", "testaskcody.com.goaskcody.com",
     "GOASKCODY.COM", "goaskcody.co", "localhost"}

HostSuffixes == {"", ".evil.io", ":8080"}

EnvHostnames ==
    {p \o c \o s : p \in HostPrefixes, c \in HostCores, s \in HostSuffixes}

\* Page names: every string over NameAlphabet up to MaxNameLen characters,
\* and names longer than the sanitizer's limit.
MaxNameLen == 3

NameAlphabet == {"a", "B", "7", "-", "_", "!", " "}

RECURSIVE NamesOfLen(_)
NamesOfLen(n) ==
    IF n = 0 THEN {""}
    ELSE {c \o s : c \in NameAlphabet, s \in NamesOfLen(n - 1)}

LongNames ==
    {LowerChars \o UpperChars,
     SubSeq(LowerChars \o UpperChars, 1, 50),
     SubSeq(LowerChars \o UpperChars, 1, 49),
     "!!" \o UpperChars \o "  " \o LowerChars \o "-_9",
     "Dashboard!!", "__proto__", "Meeting Rooms"}

PageNameInputs ==
    LongNames \cup UNION {NamesOfLen(n) : n \in 0..MaxNameLen}

\* The state of a call of fn on arg that returned result.
Called(fn, arg, result) ==
    [phase |-> "called", fn |-> fn, arg |-> arg, result |-> result]

CallGetEnvironment ==
    /\ exec.phase = "idle"
    /\ \E h \in EnvHostnames :
          exec' = Called("getEnvironmentFromHostname", h,
                         getEnvironmentFromHostname(h))
    /\ log' = <<"getEnvironmentFromHostname">>
    /\ UNCHANGED <<locationHostname, href, dialogVars>>

CallGetPageMapping ==
    /\ exec.phase = "idle"
    /\ \E h \in EnvHostnames :
          exec' = Called("getPageMapping", h, getPageMapping(h))
    /\ log' = <<"getPageMapping">>
    /\ UNCHANGED <<locationHostname, href, dialogVars>>

CallSanitizePageName ==
    /\ exec.phase = "idle"
    /\ \E name \in PageNameInputs :
          exec' = Called("sanitizePageName", Str(name),
                         sanitizePageName(Str(name)))
    /\ log' = <<"sanitizePageName">>
    /\ UNCHANGED <<locationHostname, href, dialogVars>>

UtilityNext == CallGetEnvironment \/ CallGetPageMapping \/ CallSanitizePageName

UtilitySpec == Init /\ [][UtilityNext]_vars

\* fn has been called and has returned.
Returned(fn) == exec.phase = "called" /\ exec.fn = fn

\* C15: getEnvironmentFromHostname returns an environment for every
\* hostname: US_PRODUCTION when the hostname contains the US marker, also
\* when it contains the test marker as well; TEST when it contains the test
\* marker and not the US marker; EU_PRODUCTION otherwise.
C15_EnvironmentOrder ==
    Returned("getEnvironmentFromHostname") =>
        LET us == Includes(exec.arg, "goaskcody.com")
            test == Includes(exec.arg, "testaskcody.com")
        IN /\ exec.result.type \in {"US_PRODUCTION", "TEST", "EU_PRODUCTION"}
           /\ us => exec.result.type = "US_PRODUCTION"
           /\ (test /\ ~us) => exec.result.type = "TEST"
           /\ (~test /\ ~us) => exec.result.type = "EU_PRODUCTION"

C15_Witness ==
    /\ Returned("getEnvironmentFromHostname")
    /\ exec.arg = "app.testaskcody.com.goaskcody.com"
    /\ exec.result.type = "US_PRODUCTION"

\* The catalog's synonym keys, each with its canonical key.
SynonymPairs ==
    {<<"home", "dashboard">>, <<"admin-center", "settings">>,
     <<"guests", "visitors">>, <<"analytics", "insights">>,
     <<"reports", "insights">>, <<"events", "central">>,
     <<"floor-plans", "maps">>, <<"reservations", "bookings">>,
     <<"meeting-rooms", "bookings">>}

\* C16: in the catalog getPageMapping returns for any hostname, every
\* synonym key has the same URL as its canonical key.
C16_SynonymsShareUrl ==
    Returned("getPageMapping") =>
        \A pair \in SynonymPairs :
            /\ {pair[1], pair[2]} \subseteq DOMAIN exec.result
            /\ exec.result[pair[1]].url = exec.result[pair[2]].url

C16_Witness ==
    /\ Returned("getPageMapping")
    /\ exec.arg = "us.goaskcody.com"
    /\ exec.result["meeting-rooms"].url = "https://us.goaskcody.com/all-bookings"
    /\ exec.result.bookings.url = "https://us.goaskcody.com/all-bookings"

\* The positions of s whose character, lowercased, is one of [a-z0-9_-].
KeptPositions(s) ==
    {i \in 1..Len(s) :
        LowerChar(Ch(s, i)) \in CharsOf("abcdefghijklmnopqrstuvwxyz0123456789-_")}

\* C17: the name sanitizePageName returns is made of the characters of its
\* argument that, lowercased, are in [a-z0-9_-], lowercased and in their
\* order, cut after the first 50 of them; so it holds only characters of
\* [a-z0-9_-] and is at most 50 long.
C17_SanitizedName ==
    Returned("sanitizePageName") =>
        LET s == exec.arg.str
            r == exec.result
            kept == KeptPositions(s)
        IN /\ Len(r) = (IF Cardinality(kept) < 50 THEN Cardinality(kept) ELSE 50)
           /\ \A j \in 1..Len(r) :
                 \E p \in kept :
                    /\ Cardinality({q \in kept : q < p}) = j - 1
                    /\ Ch(r, j) = LowerChar(Ch(s, p))
           /\ \A j \in 1..Len(r) :
                 Ch(r, j) \in CharsOf("abcdefghijklmnopqrstuvwxyz0123456789-_")
           /\ Len(r) <= 50

C17_Witness ==
    /\ Returned("sanitizePageName")
    /\ exec.arg = Str("!!" \o UpperChars \o "  " \o LowerChars \o "-_9")
    /\ exec.result = LowerChars \o SubSeq(LowerChars, 1, 24)

\* C18: for every raw page name that is a string whose sanitized form is
\* empty (the empty string, or only disallowed characters), execute returns
\* FAILED with the invalid-characters message.
C18_EmptyNameIsInvalidCharacters ==
    (/\ exec.phase = "returned"
     /\ IsString(exec.rawPage)
     /\ PageNameOf[exec.rawPage] = "")
    =>
        /\ exec.ret.status = "FAILED"
        /\ exec.ret.msg = "invalid_characters"

\* The hostnames of the model that are missing, not a string, empty, 255 or
\* more characters long, or not of the form alphanumeric, then alphanumerics,
\* hyphens and dots, then alphanumeric.
MalformedHostnames ==
    {h \in Hostnames :
        \/ ~IsString(h)
        \/ h.str = ""
        \/ Len(h.str) >= 255
        \/ LET alnum == CharsOf("abcdefghijklmnopqrstuvwxyz"
                                \o "ABCDEFGHIJKLMNOPQRSTUVWXYZ" \o "0123456789")
           IN ~ /\ Len(h.str) >= 2
                /\ Ch(h.str, 1) \in alnum
                /\ Ch(h.str, Len(h.str)) \in alnum
                /\ \A i \in 1..Len(h.str) : Ch(h.str, i) \in alnum \cup {"-", "."}}

\* C19: for a request with a valid page name on a page whose hostname is
\* missing or malformed, execute returns FAILED with the unable-to-determine-
\* location message, without a catalog lookup, a probe or a navigation.
C19_BadHostnameFails ==
    (/\ exec.phase # "idle"
     /\ IsString(exec.rawPage)
     /\ PageNameOf[exec.rawPage] # ""
     /\ exec.currentHostname \in MalformedHostnames)
    =>
        /\ exec.phase = "returned"
        /\ exec.ret.status = "FAILED"
        /\ exec.ret.msg = "no_location"
        /\ exec.pageInfo = NoPageInfo
        /\ exec.fetch = NoFetch
        /\ exec.nav = NoNavigation
        /\ href = NoNavigation

C19_Witness ==
    /\ exec.phase = "returned"
    /\ exec.rawPage = Str("dashboard")
    /\ exec.currentHostname = Str(Hostname255)
    /\ exec.ret.msg = "no_location"
    /\ Str(Hostname254) \notin MalformedHostnames

\* execute was given a page name that sanitizes to a non-empty name which is
\* not a key of the current hostname's catalog.
ExecUnknownPage ==
    /\ exec.phase # "idle"
    /\ exec.currentHostname \in ValidHostnames
    /\ IsString(exec.rawPage)
    /\ ExecPage # ""
    /\ ExecPage \notin DOMAIN CatalogOf[exec.currentHostname]

\* C20: for a page name that is not a key of the catalog, names such as
\* constructor and __proto__ included, execute returns the FAILED
\* page-not-found error with at most three suggestions, each a catalog key
\* overlapping the name by prefix, and the catalog listing, without a probe
\* or a navigation.
C20_UnknownPageNotFound ==
    ExecUnknownPage =>
        /\ exec.phase = "returned"
        /\ exec.ret.status = "FAILED"
        /\ exec.ret.msg = "page_not_found"
        /\ Len(exec.ret.suggestions) <= 3
        /\ \A i \in 1..Len(exec.ret.suggestions) :
              LET key == exec.ret.suggestions[i]
              IN /\ key \in DOMAIN CatalogOf[exec.currentHostname]
                 /\ \/ Includes(key, Prefix3(ExecPage))
                    \/ Includes(ExecPage, Prefix3(key))
        /\ exec.ret.listing = "available_pages"
        /\ exec.fetch = NoFetch
        /\ exec.nav = NoNavigation
        /\ href = NoNavigation


(***************************************************************************)
(* Outcomes, sessions and the catalog's URLs                               *)
(***************************************************************************)
\* The statuses of a NavigationDecision.
DecisionStatuses ==
    {"SUCCESS", "FAILED", "PERMISSION_DENIED", "PENDING_CONFIRMATION", "CANCELLED"}

\* C21: the value execute has returned and every outcome passed to the
\* host's callback or cancel has a status among SUCCESS, FAILED,
\* PERMISSION_DENIED, PENDING_CONFIRMATION and CANCELLED.
C21_StatusesOfDecision ==
    /\ exec.phase = "returned" => exec.ret.status \in DecisionStatuses
    /\ \A i \in DOMAIN delivered : delivered[i].status \in DecisionStatuses


\* A step in which render opens a confirmation dialog.
DialogOpened == sessions' = sessions + 1

\* C22: at most one confirmation session is open at a time: a dialog is
\* opened only when every session opened before it has come to an outcome.
C22_OneSessionOpen ==
    [][DialogOpened => \A id \in 1..sessions : DeliveredFor(id) # {}]_vars


\* The environment of each valid hostname of the model.
EnvOf == [h \in ValidHostnames |-> getEnvironmentFromHostname(h.str)]

\* Whether each catalog URL parses as an absolute URL of scheme https.
IsAbsoluteHttps == [u \in CatalogUrls |-> UrlParses(u) /\ UrlProtocol(u) = "https:"]

\* execute holds the entry of page key exec.rawPage in the catalog built
\* from the current hostname.
ExecOwnCatalogEntry ==
    /\ exec.phase # "idle"
    /\ exec.currentHostname \in ValidHostnames
    /\ IsString(exec.rawPage)
    /\ exec.rawPage.str \in DOMAIN CatalogOf[exec.currentHostname]
    /\ exec.pageInfo = PageLookup(CatalogOf[exec.currentHostname], exec.rawPage.str)

\* C23: for a hostname validateHostname accepts and a page key of its
\* catalog, the entry's URL is an absolute https URL whose hostname is the
\* appDomain or the userDomain of the hostname's environment, and execute
\* does not return the invalid-URL failure.
C23_CatalogUrlsValid ==
    ExecOwnCatalogEntry =>
        LET url == exec.pageInfo.url.str
            env == EnvOf[exec.currentHostname]
        IN /\ IsAbsoluteHttps[url]
           /\ TargetHostnameOf[url] \in {env.appDomain, env.userDomain}
           /\ exec.ret.msg # "invalid_url"

C23_Witness ==
    /\ ExecOwnCatalogEntry
    /\ exec.currentHostname = Str("localhost")
    /\ exec.rawPage = Str("meeting-rooms")
    /\ exec.pageInfo.url = Str("https://eu.onaskcody.com/all-bookings")
    /\ exec.ret.status = "PENDING_CONFIRMATION"


(***************************************************************************)
(* Two runs of execute that differ in the category values of the catalog   *)
(* only: the same page name, the same current hostname and the same        *)
(* answers of the network, one run over the catalog as written and one     *)
(* over the catalog with other category values.                            *)
(***************************************************************************)
\* The catalog with the category of each entry replaced.
Recategorised(pages, categoryOf) ==
    [k \in DOMAIN pages |-> [pages[k] EXCEPT !.category = categoryOf[k]]]

\* execute over the catalog with the categories categoryOf.
executeWithCategories(rawPage, rawHostname, outcomes, categoryOf) ==
    IF ~IsString(rawPage) \/ rawPage.str = ""
    THEN Outcome(Failed("not_understood"), NoNavigation, NoFetch, NoPageInfo)
    ELSE LET page == sanitizePageName(rawPage)
         IN IF page = ""
            THEN Outcome(Failed("invalid_characters"),
                         NoNavigation, NoFetch, NoPageInfo)
            ELSE IF ~validateHostname(rawHostname)
            THEN Outcome(Failed("no_location"), NoNavigation, NoFetch, NoPageInfo)
            ELSE LET pages == Recategorised(getPageMapping(rawHostname.str),
                                            categoryOf)
                     pageInfo == PageLookup(pages, page)
                 IN IF ~pageInfo.found
                    THEN Outcome(NotFound(page), NoNavigation, NoFetch, pageInfo)
                    ELSE ExecuteFrom(rawHostname.str, rawPage.str, pageInfo,
                                     outcomes)

\* The categories of the catalog as written.
LiteralCategories ==
    [k \in DOMAIN PagesOf(getEnvironmentFromHostname("")) |->
        PagesOf(getEnvironmentFromHostname(""))[k].category]

\* Other category values: one category for every entry, and the two
\* categories of the literal exchanged.
CategoryAssignments ==
    {[k \in DOMAIN LiteralCategories |-> c] : c \in {"management", "user", "other"}}
    \cup {[k \in DOMAIN LiteralCategories |->
              IF LiteralCategories[k] = "user" THEN "management" ELSE "user"]}

\* The page names of the two runs: those of the model and every catalog key.
CategoryPages == RawPages \cup {Str(k) : k \in DOMAIN LiteralCategories}

\* The two runs start: exec is the run over the catalog as written, and
\* exec.twin the run over the recategorised catalog.
CategoryExecute ==
    /\ exec.phase = "idle"
    /\ \E rawPage \in CategoryPages, categoryOf \in CategoryAssignments :
          exec' = ExecState(rawPage, locationHostname, <<>>,
                            execute(rawPage, locationHostname, <<>>))
                  @@ [categoryOf |-> categoryOf,
                      twin |-> executeWithCategories(rawPage, locationHostname,
                                                     <<>>, categoryOf)]
    /\ log' = <<"execute">>
    /\ UNCHANGED <<locationHostname, href, dialogVars>>

\* The probe's current attempt comes to the same outcome in both runs.
CategoryProbeAttempt ==
    /\ exec.phase = "probing"
    /\ \E o \in AttemptOutcomes :
          LET outcomes == Append(exec.outcomes, o)
              r == ProbeAndNavigate(exec.rawPage.str, exec.pageInfo, outcomes)
              t == IF exec.twin.ret = NotReturned
                   THEN ProbeAndNavigate(exec.rawPage.str, exec.twin.pageInfo,
                                         outcomes)
                   ELSE exec.twin
          IN /\ exec' = ExecState(exec.rawPage, exec.currentHostname, outcomes, r)
                        @@ [categoryOf |-> exec.categoryOf, twin |-> t]
             /\ href' = IF r.nav # NoNavigation THEN r.nav ELSE href
             /\ log' = IF r.nav # NoNavigation THEN <<"probe", "navigate">>
                       ELSE <<"probe">>
    /\ UNCHANGED <<locationHostname, dialogVars>>

CategoryNext == CategoryExecute \/ CategoryProbeAttempt

CategorySpec == Init /\ [][CategoryNext]_vars

\* C24: two runs of execute that differ only in the category values of the
\* catalog return the same value (status, message and data with the target
\* URL), perform the same probe and make the same navigation, for every
\* page name and current hostname.
C24_CategoryNeverRoutes ==
    exec.phase # "idle" =>
        /\ exec.twin.ret = exec.ret
        /\ exec.twin.fetch = exec.fetch
        /\ exec.twin.nav = exec.nav

C24_Witness ==
    /\ exec.phase = "returned"
    /\ exec.currentHostname = Str("app.onaskcody.com")
    /\ exec.rawPage = Str("dashboard")
    /\ exec.categoryOf["dashboard"] = "user"
    /\ exec.fetch.attempts = 2
    /\ exec.ret.status = "SUCCESS"
    /\ exec.twin.ret.status = "SUCCESS"
    /\ exec.twin.nav = "https://app.onaskcody.com/manager/dashboard/"


\* C25: in fetchWithRetry attempt k (from 0) is aborted after
\* baseTimeout + k * 1000 ms, so that the timeouts strictly increase; the
\* wait between attempt k and attempt k + 1 is 500 ms doubled k times; and
\* no wait follows the final attempt: there is one wait fewer than attempts.
C25_TimeoutsAndBackoff ==
    FetchCalled =>
        LET f == exec.fetch
        IN /\ Len(f.timeouts) = f.attempts
           /\ \A i \in 1..f.attempts :
                 f.timeouts[i] = exec.baseTimeout + (i - 1) * 1000
           /\ \A i \in 1..(f.attempts - 1) : f.timeouts[i] < f.timeouts[i + 1]
           /\ Len(f.waits) = f.attempts - 1
           /\ f.waits # <<>> => f.waits[1] = 500
           /\ \A i \in 1..(Len(f.waits) - 1) : f.waits[i + 1] = 2 * f.waits[i]

C25_Witness ==
    /\ FetchCalled
    /\ exec.phase = "settled"
    /\ exec.maxRetries = 3
    /\ exec.baseTimeout = 3000
    /\ exec.fetch.attempts = 4
    /\ exec.fetch.timeouts = <<3000, 4000, 5000, 6000>>
    /\ exec.fetch.waits = <<500, 1000, 2000>>


(***************************************************************************)
(* The page with its timers running: the callback of the 1 s timer that    *)
(* announceToScreenReader sets is run once the timer has expired.          *)
(***************************************************************************)
TimerNext ==
    \/ ExecuteCall
    \/ ProbeAttempt
    \/ Render
    \/ ClickContinue
    \/ ClickCancel
    \/ AnnouncementTimeout

TimerSpec == Init /\ [][TimerNext]_vars /\ WF_vars(AnnouncementTimeout)

\* C26: every announcement node added to the document is removed again by
\* its timer: whenever announcement nodes are in the document, eventually
\* none is.
C26_AnnouncementsRemoved == (announcements > 0) ~> (announcements = 0)

C26_Witness ==
    /\ log = <<"click:cancel", "announce", "cancel:CANCELLED">>
    /\ sessions = 1
    /\ announcements = 0


\* C27: an execute call issues at most 3 probe requests, and none when it
\* returns FAILED or PENDING_CONFIRMATION.
C27_ProbeBudget ==
    exec.phase # "idle" =>
        /\ exec.fetch.attempts <= 3
        /\ Len(exec.outcomes) <= 3
        /\ exec.ret.status \in {"FAILED", "PENDING_CONFIRMATION"} =>
              /\ exec.fetch = NoFetch
              /\ exec.outcomes = <<>>

C27_Witness ==
    /\ exec.phase = "returned"
    /\ exec.currentHostname = Str("app.goaskcody.com")
    /\ exec.rawPage = Str("dashboard")
    /\ exec.outcomes = <<Response(500), FetchError("TypeError", "Failed to fetch"),
                         Response(404)>>
    /\ exec.fetch.attempts = 3
    /\ exec.ret.status = "SUCCESS"


(***************************************************************************)
(* Requests and the dialogs that follow them: execute as the host calls    *)
(* it, and the policy step over the entries of every environment's         *)
(* catalog, each followed by render and the clicks on the dialog.          *)
(***************************************************************************)
RegionNext ==
    \/ ExecuteCall
    \/ PolicyExecute
    \/ ProbeAttempt
    \/ Render
    \/ ClickContinue
    \/ ClickCancel
    \/ ClickClose

RegionSpec == Init /\ [][RegionNext]_vars

\* C28: every value assigned to window.location.href, by execute or by the
\* dialog's continue handler, is a catalog URL whose hostname has the
\* environment type of the hostname that was current in the execute call.
C28_NoCrossRegionNavigation ==
    href # NoNavigation =>
        /\ href \in CatalogUrls
        /\ exec.currentHostname \in ValidHostnames
        /\ TypeOfHost(TargetHostnameOf[href]) = TypeOfHost(exec.currentHostname.str)

C28_Witness ==
    /\ log # <<>>
    /\ Head(log) = "click:continue"
    /\ exec.currentHostname = Str("us.goaskcody.com")
    /\ exec.ret.status = "PENDING_CONFIRMATION"
    /\ href = "https://app.goaskcody.com/manager/insights/"


\* C29: for a hostname validateHostname accepts and a page key of the
\* catalog built from it, the environment type of the target URL's hostname
\* is that of the current hostname, and execute does not return the
\* cross-region denial.
C29_CrossRegionUnreachable ==
    ExecOwnCatalogEntry =>
        /\ TypeOfHost(TargetHostnameOf[exec.pageInfo.url.str])
              = TypeOfHost(exec.currentHostname.str)
        /\ exec.ret.msg # "cross_region"

C29_Witness ==
    /\ ExecOwnCatalogEntry
    /\ exec.currentHostname = Str("goaskcody.com.testaskcody.com")
    /\ exec.rawPage = Str("central")
    /\ exec.pageInfo.url = Str("https://us.goaskcody.com/central/events")
    /\ TypeOfHost("goaskcody.com.testaskcody.com") = "US_PRODUCTION"
    /\ exec.ret.status = "PENDING_CONFIRMATION"


\* The current hostname of the execute call is neither domain of the
\* environment it resolves to.
ExecOnForeignHost ==
    /\ exec.currentHostname \in ValidHostnames
    /\ exec.currentHostname.str \notin {EnvOf[exec.currentHostname].appDomain,
                                        EnvOf[exec.currentHostname].userDomain}

\* C30: from a valid hostname that is neither the appDomain nor the
\* userDomain of its environment, execute returns PENDING_CONFIRMATION for
\* every catalog page, without a probe and without navigating.
C30_ForeignHostConfirms ==
    (ExecOwnCatalogEntry /\ ExecOnForeignHost) =>
        /\ exec.phase = "returned"
        /\ exec.ret.status = "PENDING_CONFIRMATION"
        /\ exec.fetch = NoFetch
        /\ exec.nav = NoNavigation
        /\ href = NoNavigation

C30_Witness ==
    /\ ExecOwnCatalogEntry
    /\ ExecOnForeignHost
    /\ exec.currentHostname = Str("APP.onaskcody.com")
    /\ exec.rawPage = Str("dashboard")
    /\ exec.ret.status = "PENDING_CONFIRMATION"
    /\ exec.ret.data.targetHostname = "app.onaskcody.com"


(***************************************************************************)
(* Cancelled sessions, the settling of the probe, and render without UI    *)
(***************************************************************************)
\* The open session has delivered CANCELLED to the host.
SessionCancelled ==
    /\ session.id >= 1
    /\ \E i \in DeliveredFor(session.id) : delivered[i].status = "CANCELLED"

\* C31: once a session has delivered CANCELLED, no later step of that
\* session sets the navigation target or delivers SUCCESS.
C31_CancelledStaysCancelled ==
    [][(SessionCancelled /\ session' = session) =>
          /\ href' = href
          /\ \A i \in DOMAIN delivered' \ DOMAIN delivered :
                delivered'[i].status # "SUCCESS"]_vars


(***************************************************************************)
(* The prober and execute with the network answering: the fetch of every   *)
(* attempt settles, with a response, a network error, or the AbortError    *)
(* that the attempt's abort timer brings about.                            *)
(***************************************************************************)
SettleNext == ProberNext \/ ExecuteCall \/ ProbeAttempt

SettleSpec ==
    /\ Init
    /\ [][SettleNext]_vars
    /\ WF_vars(FetchAttempt)
    /\ WF_vars(ProbeAttempt)

\* The promise of fetchWithRetry is settled one way: resolved with a
\* response and no error, or rejected with an error and no response.
SettledOneWay ==
    LET f == exec.fetch
    IN \/ /\ f.settled = "resolved"
          /\ "status" \in DOMAIN f
          /\ "error" \notin DOMAIN f
       \/ /\ f.settled = "rejected"
          /\ "error" \in DOMAIN f
          /\ "status" \notin DOMAIN f

\* C32: for every maxRetries >= 0 and every sequence of attempt outcomes,
\* fetchWithRetry makes at most maxRetries + 1 attempts, is settled once
\* the last of them has come to its outcome, and is then either resolved
\* with a response or rejected with an error; a call of fetchWithRetry
\* eventually settles, and an execute call that awaits the probe eventually
\* returns a decision.
C32_ProbeSettles ==
    /\ [](FetchCalled =>
             /\ exec.fetch.attempts <= exec.maxRetries + 1
             /\ Len(exec.outcomes) = exec.maxRetries + 1 => exec.phase = "settled"
             /\ exec.phase = "settled" => SettledOneWay
             /\ exec.phase = "fetching" => exec.fetch.settled = "pending")
    /\ (exec.phase = "fetching") ~> (exec.phase = "settled")
    /\ (exec.phase = "probing") ~>
          (exec.phase = "returned" /\ exec.ret.status \in DecisionStatuses)

C32_Witness ==
    /\ exec.phase = "settled"
    /\ exec.maxRetries = 3
    /\ exec.outcomes = <<Response(500), FetchError("TypeError", "Failed to fetch"),
                         Response(404), Response(500)>>
    /\ exec.fetch.attempts = 4
    /\ exec.fetch.settled = "resolved"
    /\ exec.fetch.status = 500


\* The attempt count that the message of a rejection states.
StatesAttempts(message, n) ==
    LET prefix == "Failed after " \o ToString(n) \o " attempts"
    IN Len(message) >= Len(prefix) /\ SubSeq(message, 1, Len(prefix)) = prefix

\* C33: whenever fetchWithRetry has rejected, the attempt count stated in
\* the message of its error is the number of fetch attempts it made.
C33_MessageCountsAttempts ==
    (FetchCalled /\ exec.fetch.settled = "rejected") =>
        StatesAttempts(exec.fetch.error.message, exec.fetch.attempts)


\* C34: when an attempt of execute's probe returns 401 or 403, whatever the
\* attempts before it came to, the probe stops at that attempt and execute
\* returns PERMISSION_DENIED with that status, without navigating.
C34_DenialNeverMasked ==
    exec.phase \in {"probing", "returned"} =>
        \A i \in DOMAIN exec.outcomes :
            (exec.outcomes[i].kind = "response" /\ exec.outcomes[i].status \in {401, 403})
            =>
                /\ i = Len(exec.outcomes)
                /\ exec.fetch.attempts = i
                /\ exec.phase = "returned"
                /\ exec.ret.status = "PERMISSION_DENIED"
                /\ exec.ret.data.errorCode = exec.outcomes[i].status
                /\ exec.nav = NoNavigation
                /\ href = NoNavigation

C34_Witness ==
    /\ exec.phase = "returned"
    /\ exec.currentHostname = Str("eu.testaskcody.com")
    /\ exec.rawPage = Str("meeting-rooms")
    /\ exec.outcomes = <<FetchError("TypeError", "Failed to fetch"), Response(500),
                         Response(401)>>
    /\ exec.ret.status = "PERMISSION_DENIED"
    /\ exec.ret.data.errorCode = 401
    /\ href = NoNavigation


\* A step in which render returned because its data asks for no UI.
RenderedNothing ==
    /\ log' # <<>>
    /\ log'[Len(log')] = "return:nothing-to-render"
    /\ Render

\* C35: a render call whose data carries neither requiresConfirmation nor
\* requiresPermissionError leaves the host element as it was, registers no
\* listener, calls neither callback nor cancel, and does not set the
\* navigation target.
C35_RenderWithoutUiIsNoOp ==
    [][RenderedNothing =>
          /\ hostContent' = hostContent
          /\ listeners' = listeners
          /\ session' = session
          /\ continueDisabled' = continueDisabled
          /\ cancelDisabled' = cancelDisabled
          /\ errorDiv' = errorDiv
          /\ delivered' = delivered
          /\ announcements' = announcements
          /\ sessions' = sessions
          /\ href' = href]_vars

C35_Witness ==
    /\ log = <<"render", "return:nothing-to-render">>
    /\ exec.ret.status = "PENDING_CONFIRMATION"
    /\ hostContent = "dialog"
    /\ listeners = {"continue", "cancel"}
    /\ session.id = 1
    /\ delivered = <<>>
    /\ href = NoNavigation

====
